---- MODULE Spec2Model ----
(***************************************************************************)
(* The two diagram programs of src/analysis: current-architecture-diagram  *)
(* and proposed-architecture-diagram.  Each is a straight-line script over *)
(* one matplotlib figure: create the canvas, set its limits, add texts,    *)
(* patches and connectors, then tight_layout, savefig, close and print.    *)
(*                                                                         *)
(* Coordinates are data coordinates in hundredths (0.15 is 15, 9.25 is     *)
(* 925): every literal of the two scripts is a multiple of 0.05.  Shrink   *)
(* amounts are in points, as matplotlib takes them.  Pads are hundredths.  *)
(* Each statement carries the source line it is written on.                *)
(***************************************************************************)
EXTENDS Integers, Sequences, FiniteSets, TLC

VARIABLES pc, status, figOpen, xlim, ylim, axesOn, drawOrder, exports, saved, stdout, raised

vars == <<pc, status, figOpen, xlim, ylim, axesOn, drawOrder, exports, saved, stdout, raised>>

Programs == {"current", "proposed"}

(***************************************************************************)
(* Statements.  One record shape for all of them, so that a script is a    *)
(* sequence of like records.                                               *)
(***************************************************************************)
Stmt(op, line) ==
  [op |-> op, line |-> line, role |-> "none", label |-> "",
   x |-> 0, y |-> 0, w |-> 0, h |-> 0, x2 |-> 0, y2 |-> 0, pad |-> 0,
   ha |-> "none", va |-> "none", boxed |-> FALSE,
   arrowstyle |-> "none", shrinkA |-> 0, shrinkB |-> 0, coords |-> "none"]

\* fig, ax = plt.subplots(1, 1, figsize=(w, h))
Subplots(line, fw, fh) == [Stmt("subplots", line) EXCEPT !.w = fw, !.h = fh]

\* ax.set_xlim(lo, hi) / ax.set_ylim(lo, hi)
SetXlim(line, lo, hi) == [Stmt("set_xlim", line) EXCEPT !.x = lo, !.x2 = hi]

SetYlim(line, lo, hi) == [Stmt("set_ylim", line) EXCEPT !.y = lo, !.y2 = hi]

\* ax.axis('off')
AxisOff(line) == Stmt("axis_off", line)

\* ax.text(x, y, label, ha=, va=, bbox=): matplotlib's defaults are
\* ha='left', va='baseline', no bbox.
Txt(line, role, label, x, y, ha, va, boxed) ==
  [Stmt("text", line) EXCEPT !.role = role, !.label = label, !.x = x, !.y = y,
                            !.ha = ha, !.va = va, !.boxed = boxed, !.coords = "data"]

\* b = FancyBboxPatch((x, y), w, h, boxstyle="round,pad=.."); ax.add_patch(b)
Box(line, role, label, x, y, w, h, pad) ==
  [Stmt("add_patch", line) EXCEPT !.role = role, !.label = label, !.x = x, !.y = y,
                                 !.w = w, !.h = h, !.pad = pad, !.coords = "data"]

\* a = ConnectionPatch((x, y), (x2, y2), "data", "data", arrowstyle="->",
\*                     shrinkA=5, shrinkB=5, ...); ax.add_artist(a)
Arrow(line, label, x, y, x2, y2) ==
  [Stmt("add_artist", line) EXCEPT !.role = "connector", !.label = label,
                                  !.x = x, !.y = y, !.x2 = x2, !.y2 = y2,
                                  !.arrowstyle = "->", !.shrinkA = 5, !.shrinkB = 5,
                                  !.coords = "data"]

\* ConnectionPatch((x, y), (x2, y2), "data", "data", linestyle="--", ...):
\* no arrowstyle (matplotlib's default "-") and the default shrinkA=shrinkB=0.
Line(line, label, x, y, x2, y2) ==
  [Stmt("add_artist", line) EXCEPT !.role = "connector", !.label = label,
                                  !.x = x, !.y = y, !.x2 = x2, !.y2 = y2,
                                  !.arrowstyle = "-", !.coords = "data"]

\* Mutant: the origin of the chip is lowered by half its width only, so the
\* rectangle is no longer centred on (x, y).
ChipBodyOffCentre(line, c, dx, dy, w, h) ==
  << Box(line, "chip", c[1], c[2] - dx, c[3], w, h, 2),
     Txt(line + 1, "chipLabel", c[1], c[2], c[3], "center", "center", FALSE) >>

\* for comp, x, y in components:
\*     comp_box = FancyBboxPatch((x-dx, y-dy), w, h, boxstyle="round,pad=0.02", ...)
\*     ax.add_patch(comp_box)
\*     ax.text(x, y, <first part of comp>, ha='center', va='center')
ChipBody(line, c, dx, dy, w, h) ==
  << Box(line, "chip", c[1], c[2] - dx, c[3] - dy, w, h, 2),
     Txt(line + 1, "chipLabel", c[1], c[2], c[3], "center", "center", FALSE) >>

\* The java_components loop of the proposed diagram draws a second text,
\* '(UNCHANGED)', at (x, y-0.15).
ChipBodyUnchanged(line, c, dx, dy, w, h) ==
  << Box(line, "chip", c[1], c[2] - dx, c[3] - dy, w, h, 2),
     Txt(line + 1, "chipLabel", c[1], c[2], c[3], "center", "center", FALSE),
     Txt(line + 2, "chipSubLabel", c[1], c[2], c[3] - 15, "center", "center", FALSE) >>

RECURSIVE Flatten(_)
Flatten(ss) == IF ss = <<>> THEN <<>> ELSE Head(ss) \o Flatten(Tail(ss))

(***************************************************************************)
(* current-architecture-diagram.py                                         *)
(***************************************************************************)
CurrentSetup ==
  << Subplots(12, 14, 10), SetXlim(13, 0, 1000), SetYlim(14, 0, 1000), AxisOff(15) >>

CurTitle ==
  << Txt(25, "annotation", "Current Monolithic Java Audit System", 500, 950,
         "center", "baseline", FALSE) >>

CurMain ==
  << Box(35, "container", "main_box", 50, 100, 900, 750, 10),
     Txt(36, "containerLabel", "Java Audit System", 500, 820, "center", "baseline", FALSE) >>

mitm_components ==
  << <<"MonitorSSHAudit.java", 150, 680>>, <<"MonitorVNCAudit.java", 350, 680>>,
     <<"Rdp2ProxyHandler.java", 550, 680>>, <<"SessionInfo.java", 750, 680>> >>

audit_components ==
  << <<"AuditFile.java", 150, 430>>, <<"DatabaseAuditWriter.java", 350, 430>>,
     <<"TerminalAuditWriter.java", 550, 430>>, <<"GuessingConnectionLinker.java", 750, 430>> >>

\* The loop body as written in the current diagram: the origin is
\* (x-0.4, y-0.15) and the extent 0.8 x 0.3.
CurChipLoop(line, comps) ==
  Flatten([i \in 1..Len(comps) |-> ChipBody(line, comps[i], 40, 15, 80, 30)])

CurMitm ==
  << Box(45, "container", "mitm_box", 100, 600, 800, 180, 5),
     Txt(46, "containerLabel", "MITM Proxy Layer", 500, 750, "center", "baseline", FALSE) >>
  \o CurChipLoop(62, mitm_components)

CurAudit ==
  << Box(72, "container", "audit_box", 100, 350, 800, 180, 5),
     Txt(73, "containerLabel", "Audit Logging Layer", 500, 500, "center", "baseline", FALSE) >>
  \o CurChipLoop(89, audit_components)

CurCred ==
  << Box(99, "container", "cred_box", 100, 150, 800, 120, 5),
     Txt(100, "containerLabel", "Credential Injection Service", 500, 250,
         "center", "baseline", FALSE),
     Txt(101, "containerLabel", "CredentialInjectionService.java (Parent Integration)",
         500, 190, "center", "baseline", FALSE) >>

CurArrows ==
  << Arrow(108, "arrow1", 500, 600, 500, 530),
     Arrow(114, "arrow2", 500, 600, 500, 270),
     Arrow(120, "arrow3", 500, 350, 500, 270) >>

CurCoupling ==
  << Txt(123, "annotation", "Tight Coupling", 550, 570, "center", "baseline", TRUE) >>

CurClient ==
  << Txt(127, "annotation", "Client Connections", 20, 700, "center", "center", TRUE),
     Arrow(134, "client_arrow", 80, 700, 100, 700) >>

CurProblems ==
  << Txt(144, "annotation", "Problems with Current Architecture", 50, 50,
         "left", "bottom", TRUE) >>

\* Mutant: the credential container is added after the coupling arrows.
CurrentPopulateCredLate ==
  CurTitle \o CurMain \o CurMitm \o CurAudit \o CurArrows \o CurCred
  \o CurCoupling \o CurClient \o CurProblems

CurrentPopulate ==
  CurTitle \o CurMain \o CurMitm \o CurAudit \o CurCred \o CurArrows
  \o CurCoupling \o CurClient \o CurProblems

(***************************************************************************)
(* proposed-architecture-diagram.py                                        *)
(***************************************************************************)
\* Mutant: the limits of the current diagram are kept for the wider one.
ProposedSetupNarrow ==
  << Subplots(12, 16, 12), SetXlim(13, 0, 1000), SetYlim(14, 0, 1000), AxisOff(15) >>

ProposedSetup ==
  << Subplots(12, 16, 12), SetXlim(13, 0, 1200), SetYlim(14, 0, 1000), AxisOff(15) >>

PropTitle ==
  << Txt(25, "annotation", "Proposed Separated Architecture: Rust MITM + Java Audit",
         600, 950, "center", "baseline", FALSE) >>

rust_components ==
  << <<"SSH MITM\n(russh)", 150, 750>>, <<"RDP MITM\n(IronRDP)", 400, 750>>,
     <<"WebSocket\nStreaming", 150, 650>>, <<"Credential Lookup\nvia IPC", 400, 650>>,
     <<"Protocol State\nManagement", 275, 550>> >>

java_components ==
  << <<"AuditFile.java\n(UNCHANGED)", 800, 750>>,
     <<"DatabaseAuditWriter.java\n(UNCHANGED)", 1050, 750>>,
     <<"TerminalAuditWriter.java\n(UNCHANGED)", 800, 650>>,
     <<"GuessingConnectionLinker.java\n(UNCHANGED)", 1050, 650>>,
     <<"CredentialInjectionService.java\n(UNCHANGED)", 925, 550>> >>

ipc_components ==
  << "Credential Lookup", "Audit Events", "Session Lifecycle", "WebSocket Data" >>

\* The loop bodies as written in the proposed diagram: the origin is
\* (x-0.4, y-0.25) and the extent 0.8 x 0.5.
RustChipLoop ==
  Flatten([i \in 1..Len(rust_components) |->
             ChipBody(53, rust_components[i], 40, 25, 80, 50)])

JavaChipLoop ==
  Flatten([i \in 1..Len(java_components) |->
             ChipBodyUnchanged(82, java_components[i], 40, 25, 80, 50)])

\* for i, comp in enumerate(ipc_components): ax.text(6, 7.2 - i*0.2, ...)
IpcLoop ==
  [k \in 1..Len(ipc_components) |->
     Txt(105, "containerLabel", ipc_components[k], 600, 720 - (k - 1) * 20,
         "center", "baseline", FALSE)]

PropRust ==
  << Box(35, "container", "rust_box", 50, 500, 450, 350, 10),
     Txt(36, "containerLabel", "Rust MITM Process", 275, 820, "center", "baseline", FALSE) >>
  \o RustChipLoop

PropJava ==
  << Box(63, "container", "java_box", 700, 500, 450, 350, 10),
     Txt(64, "containerLabel", "Java Audit Process", 925, 820, "center", "baseline", FALSE) >>
  \o JavaChipLoop

PropIpc ==
  << Box(94, "container", "ipc_box", 525, 600, 150, 200, 5),
     Txt(95, "containerLabel", "IPC Interface", 600, 750, "center", "baseline", FALSE) >>
  \o IpcLoop

PropIpcArrows ==
  << Arrow(111, "ipc_arrow1", 500, 700, 525, 700),
     Arrow(116, "ipc_arrow2", 675, 700, 700, 700),
     Arrow(121, "ipc_arrow3", 700, 650, 675, 650),
     Arrow(126, "ipc_arrow4", 525, 650, 500, 650) >>

PropClients ==
  << Txt(129, "annotation", "Native Clients", 20, 700, "center", "center", TRUE),
     Txt(132, "annotation", "Web Clients", 20, 550, "center", "center", TRUE),
     Arrow(139, "client_arrow1", 80, 700, 50, 700),
     Arrow(144, "client_arrow2", 80, 550, 50, 600) >>

PropExternal ==
  << Txt(147, "annotation", "Database", 925, 450, "center", "center", TRUE),
     Txt(150, "annotation", "Audit Files", 1100, 450, "center", "center", TRUE),
     Arrow(157, "db_arrow", 925, 500, 925, 470),
     Arrow(162, "file_arrow", 1050, 500, 1100, 470) >>

PropNotes ==
  << Txt(173, "annotation", "Benefits of Separated Architecture", 50, 350,
         "left", "top", TRUE),
     Txt(184, "annotation", "Technical Implementation", 650, 350, "left", "top", TRUE),
     Txt(188, "annotation", "Bidirectional IPC", 600, 870, "center", "baseline", TRUE) >>

PropBoundary ==
  << Line(194, "separation_line", 575, 450, 575, 850),
     Txt(195, "annotation", "Process Boundary", 575, 420, "center", "baseline", FALSE) >>

\* Mutant: the IPC container is added after the IPC arrows.
ProposedPopulateIpcLate ==
  PropTitle \o PropRust \o PropJava \o PropIpcArrows \o PropIpc \o PropClients
  \o PropExternal \o PropNotes \o PropBoundary

ProposedPopulate ==
  PropTitle \o PropRust \o PropJava \o PropIpc \o PropIpcArrows \o PropClients
  \o PropExternal \o PropNotes \o PropBoundary

(***************************************************************************)
(* The last four statements of either script:                              *)
(*   plt.tight_layout(); plt.savefig(path, dpi=300, bbox_inches='tight')   *)
(*   plt.close(); print("... diagram saved as: " + path)                   *)
(***************************************************************************)
\* Mutant: a caption is added after the file was written.
ExportTailLateText(line, path) ==
  << Stmt("tight_layout", line),
     [Stmt("savefig", line + 1) EXCEPT !.label = path],
     Txt(line + 2, "annotation", "caption", 500, 20, "center", "baseline", FALSE),
     Stmt("close", line + 2),
     [Stmt("print", line + 4) EXCEPT !.label = path] >>

\* Mutant: the file is written a second time after the figure was closed.
ExportTailTwice(line, path) ==
  << Stmt("tight_layout", line),
     [Stmt("savefig", line + 1) EXCEPT !.label = path],
     Stmt("close", line + 2),
     [Stmt("savefig", line + 3) EXCEPT !.label = path],
     [Stmt("print", line + 4) EXCEPT !.label = path] >>

ExportTail(line, path) ==
  << Stmt("tight_layout", line),
     [Stmt("savefig", line + 1) EXCEPT !.label = path],
     Stmt("close", line + 2),
     [Stmt("print", line + 4) EXCEPT !.label = path] >>

CurrentScript ==
  CurrentSetup \o CurrentPopulate \o ExportTail(147, "docs/analysis/current-architecture.png")

ProposedScript ==
  ProposedSetup \o ProposedPopulate
  \o ExportTail(197, "docs/analysis/proposed-architecture.png")

Script(p) == IF p = "current" THEN CurrentScript ELSE ProposedScript

(***************************************************************************)
(* Execution.  Each program is its own interpreter process; pc[p] is the   *)
(* index of the next statement of Script(p).  No variable of one program   *)
(* is read or written by a step of the other.                              *)
(***************************************************************************)
Init ==
  /\ pc = [p \in Programs |-> 1]
  /\ status = [p \in Programs |-> "running"]
  /\ figOpen = [p \in Programs |-> FALSE]
  /\ xlim = [p \in Programs |-> <<0, 0>>]
  /\ ylim = [p \in Programs |-> <<0, 0>>]
  /\ axesOn = [p \in Programs |-> FALSE]
  /\ drawOrder = [p \in Programs |-> <<>>]
  /\ exports = [p \in Programs |-> 0]
  /\ saved = [p \in Programs |-> FALSE]
  /\ stdout = [p \in Programs |-> <<>>]
  /\ raised = [p \in Programs |-> "none"]

At(p, op) ==
  /\ status[p] = "running"
  /\ pc[p] <= Len(Script(p))
  /\ Script(p)[pc[p]].op = op

Cur(p) == Script(p)[pc[p]]

Advance(p) == pc' = [pc EXCEPT ![p] = pc[p] + 1]

\* fig, ax = plt.subplots(1, 1, figsize=...): a new figure with one axes,
\* whose limits are matplotlib's defaults (0, 1) and whose axis is shown.
plt_subplots(p) ==
  /\ At(p, "subplots")
  /\ figOpen' = [figOpen EXCEPT ![p] = TRUE]
  /\ xlim' = [xlim EXCEPT ![p] = <<0, 100>>]
  /\ ylim' = [ylim EXCEPT ![p] = <<0, 100>>]
  /\ axesOn' = [axesOn EXCEPT ![p] = TRUE]
  /\ Advance(p)
  /\ UNCHANGED <<status, drawOrder, exports, saved, stdout, raised>>

ax_set_xlim(p) ==
  /\ At(p, "set_xlim")
  /\ xlim' = [xlim EXCEPT ![p] = <<Cur(p).x, Cur(p).x2>>]
  /\ Advance(p)
  /\ UNCHANGED <<status, figOpen, ylim, axesOn, drawOrder, exports, saved, stdout, raised>>

ax_set_ylim(p) ==
  /\ At(p, "set_ylim")
  /\ ylim' = [ylim EXCEPT ![p] = <<Cur(p).y, Cur(p).y2>>]
  /\ Advance(p)
  /\ UNCHANGED <<status, figOpen, xlim, axesOn, drawOrder, exports, saved, stdout, raised>>

ax_axis_off(p) ==
  /\ At(p, "axis_off")
  /\ axesOn' = [axesOn EXCEPT ![p] = FALSE]
  /\ Advance(p)
  /\ UNCHANGED <<status, figOpen, xlim, ylim, drawOrder, exports, saved, stdout, raised>>

\* ax.text / ax.add_patch / ax.add_artist append the artist to the axes'
\* children.  matplotlib draws children in insertion order within one
\* zorder; FancyBboxPatch and ConnectionPatch share the patch zorder.
ax_text(p) ==
  /\ At(p, "text")
  /\ drawOrder' = [drawOrder EXCEPT ![p] = Append(drawOrder[p], Cur(p))]
  /\ Advance(p)
  /\ UNCHANGED <<status, figOpen, xlim, ylim, axesOn, exports, saved, stdout, raised>>

ax_add_patch(p) ==
  /\ At(p, "add_patch")
  /\ drawOrder' = [drawOrder EXCEPT ![p] = Append(drawOrder[p], Cur(p))]
  /\ Advance(p)
  /\ UNCHANGED <<status, figOpen, xlim, ylim, axesOn, exports, saved, stdout, raised>>

\* Mutant: the two end points are stored the wrong way round.
ax_add_artist_swapped(p) ==
  /\ At(p, "add_artist")
  /\ drawOrder' = [drawOrder EXCEPT ![p] =
                     Append(drawOrder[p],
                            [Cur(p) EXCEPT !.x = Cur(p).x2, !.y = Cur(p).y2,
                                           !.x2 = Cur(p).x, !.y2 = Cur(p).y])]
  /\ Advance(p)
  /\ UNCHANGED <<status, figOpen, xlim, ylim, axesOn, exports, saved, stdout, raised>>

\* The ConnectionPatch keeps xyA, xyB, the coordinate systems and the
\* shrink amounts it was constructed with.
ax_add_artist(p) ==
  /\ At(p, "add_artist")
  /\ drawOrder' = [drawOrder EXCEPT ![p] = Append(drawOrder[p], Cur(p))]
  /\ Advance(p)
  /\ UNCHANGED <<status, figOpen, xlim, ylim, axesOn, exports, saved, stdout, raised>>

\* plt.tight_layout() adjusts the subplot margins, which are not state here.
plt_tight_layout(p) ==
  /\ At(p, "tight_layout")
  /\ Advance(p)
  /\ UNCHANGED <<status, figOpen, xlim, ylim, axesOn, drawOrder, exports, saved, stdout, raised>>

\* plt.savefig(path, dpi=300, bbox_inches='tight') writes the file.
plt_savefig_ok(p) ==
  /\ At(p, "savefig")
  /\ exports' = [exports EXCEPT ![p] = exports[p] + 1]
  /\ saved' = [saved EXCEPT ![p] = TRUE]
  /\ Advance(p)
  /\ UNCHANGED <<status, figOpen, xlim, ylim, axesOn, drawOrder, stdout, raised>>

\* Mutant: the failure of savefig is swallowed (try: ... except: pass) and
\* the script goes on to the next statement.
plt_savefig_fail_swallowed(p) ==
  /\ At(p, "savefig")
  /\ exports' = [exports EXCEPT ![p] = exports[p] + 1]
  /\ Advance(p)
  /\ UNCHANGED <<status, figOpen, xlim, ylim, axesOn, drawOrder, saved, stdout, raised>>

\* plt.savefig raises (the directory docs/analysis is missing or not
\* writable).  Neither script has a try statement: the exception is not
\* caught, the statements after line 148 / 198 are not run and the
\* interpreter exits with status 1.
plt_savefig_fail(p) ==
  /\ At(p, "savefig")
  /\ exports' = [exports EXCEPT ![p] = exports[p] + 1]
  /\ raised' = [raised EXCEPT ![p] = "OSError"]
  /\ status' = [status EXCEPT ![p] = "failed"]
  /\ UNCHANGED <<pc, figOpen, xlim, ylim, axesOn, drawOrder, saved, stdout>>

plt_close(p) ==
  /\ At(p, "close")
  /\ figOpen' = [figOpen EXCEPT ![p] = FALSE]
  /\ Advance(p)
  /\ UNCHANGED <<status, xlim, ylim, axesOn, drawOrder, exports, saved, stdout, raised>>

print(p) ==
  /\ At(p, "print")
  /\ stdout' = [stdout EXCEPT ![p] = Append(stdout[p], Cur(p).label)]
  /\ Advance(p)
  /\ UNCHANGED <<status, figOpen, xlim, ylim, axesOn, drawOrder, exports, saved, raised>>

\* The end of the script: the interpreter exits with status 0.
exit(p) ==
  /\ status[p] = "running"
  /\ pc[p] > Len(Script(p))
  /\ status' = [status EXCEPT ![p] = "done"]
  /\ UNCHANGED <<pc, figOpen, xlim, ylim, axesOn, drawOrder, exports, saved, stdout, raised>>

ExitStatus(p) == IF status[p] = "failed" THEN 1 ELSE 0

Terminated(p) == status[p] # "running"

Next ==
  \E p \in Programs :
    \/ plt_subplots(p)
    \/ ax_set_xlim(p)
    \/ ax_set_ylim(p)
    \/ ax_axis_off(p)
    \/ ax_text(p)
    \/ ax_add_patch(p)
    \/ ax_add_artist(p)
    \/ plt_tight_layout(p)
    \/ plt_savefig_ok(p)
    \/ plt_savefig_fail(p)
    \/ plt_close(p)
    \/ print(p)
    \/ exit(p)

Spec == Init /\ [][Next]_vars

(***************************************************************************)
(* The diagram's lifecycle, read off the state: Configuring until the      *)
(* first artist is added, Populating until savefig is called, Exported     *)
(* from then on.                                                           *)
(***************************************************************************)
Phase(p) ==
  IF exports[p] > 0 THEN "Exported"
  ELSE IF drawOrder[p] # <<>> THEN "Populating"
  ELSE "Configuring"

CanvasConfig(p) == <<xlim[p], ylim[p], axesOn[p]>>

\* The statements already executed by p.
Executed(p) == SubSeq(Script(p), 1, pc[p] - 1)

\* C1: the diagram goes Configuring -> Populating -> Exported and never
\* back; once savefig has been called no step changes the draw order or the
\* canvas configuration of that diagram (the only later effects are the
\* release of the figure and the confirmation line), and once population
\* has begun the canvas configuration no longer changes.
C1_Lifecycle ==
  [][\A p \in Programs :
       /\ Phase(p) = "Configuring" => Phase(p)' \in {"Configuring", "Populating"}
       /\ Phase(p) = "Populating" =>
            /\ Phase(p)' \in {"Populating", "Exported"}
            /\ CanvasConfig(p)' = CanvasConfig(p)
       /\ Phase(p) = "Exported" =>
            /\ Phase(p)' = "Exported"
            /\ drawOrder'[p] = drawOrder[p]
            /\ CanvasConfig(p)' = CanvasConfig(p)
            /\ exports'[p] = exports[p]]_vars

\* A run that was exported and then went on to its end.
C1_Witness ==
  \E p \in Programs :
    Phase(p) = "Exported" /\ status[p] = "done" /\ drawOrder[p] # <<>> /\ ~figOpen[p]

\* C3 (as claimed): on every path on which savefig was called, the run ends
\* with the figure closed.
C3_ReleasedOnEveryPath ==
  \A p \in Programs : (Terminated(p) /\ exports[p] > 0) => ~figOpen[p]

\* C4: the confirmation line is printed only after savefig succeeded; when
\* savefig fails the error is not caught, savefig is not called again,
\* nothing is printed and the exit status is not zero.
C4_ConfirmAfterExport ==
  \A p \in Programs :
    /\ stdout[p] # <<>> => (saved[p] /\ raised[p] = "none")
    /\ (exports[p] > 0 /\ ~saved[p]) =>
         /\ raised[p] = "OSError"
         /\ Terminated(p)
         /\ ExitStatus(p) # 0
         /\ exports[p] = 1
         /\ stdout[p] = <<>>
    /\ (Terminated(p) /\ ExitStatus(p) = 0) => Len(stdout[p]) = 1

\* One program failed at savefig while the other printed its confirmation.
C4_Witness ==
  \E p, q \in Programs :
    /\ raised[p] = "OSError" /\ status[p] = "failed" /\ stdout[p] = <<>>
    /\ status[q] = "done" /\ saved[q] /\ Len(stdout[q]) = 1

\* C5: savefig is called exactly once in every complete run, and never
\* more than once at any point of a run.
C5_ExportOnce ==
  \A p \in Programs :
    /\ exports[p] <= 1
    /\ Terminated(p) => exports[p] = 1

\* Both programs have run to their end, one on each path.
C5_Witness ==
  \E p, q \in Programs :
    /\ status[p] = "done" /\ exports[p] = 1
    /\ status[q] = "failed" /\ exports[q] = 1

(***************************************************************************)
(* The order of the statements.                                            *)
(***************************************************************************)
\* The step of the pass "configure canvas, place containers, place chips
\* with labels, draw connectors, draw annotations, export" that a statement
\* belongs to.  A text that names a container counts with the container.
FineRank(st) ==
  CASE st.op \in {"subplots", "set_xlim", "set_ylim", "axis_off"} -> 0
    [] st.role \in {"container", "containerLabel"} -> 1
    [] st.role \in {"chip", "chipLabel", "chipSubLabel"} -> 2
    [] st.role = "connector" -> 3
    [] st.role = "annotation" -> 4
    [] OTHER -> 5

\* Configure (0), populate (1), export (2).
CoarseRank(st) ==
  CASE st.op \in {"subplots", "set_xlim", "set_ylim", "axis_off"} -> 0
    [] st.op \in {"text", "add_patch", "add_artist"} -> 1
    [] OTHER -> 2

\* C6 (as claimed): no statement of an earlier step of the pass is executed
\* after a statement of a later step.
C6_StrictPassOrder ==
  \A p \in Programs : \A i, j \in 1..Len(Executed(p)) :
    i < j => FineRank(Executed(p)[i]) <= FineRank(Executed(p)[j])

\* C6 (amended): all canvas configuration comes first and the export comes
\* last; between them every container and every chip is placed before the
\* first connector, while containers alternate with their chips and
\* annotations occur anywhere among the populate statements.
C6_PassOrder ==
  \A p \in Programs : \A i, j \in 1..Len(Executed(p)) :
    i < j =>
      /\ CoarseRank(Executed(p)[i]) <= CoarseRank(Executed(p)[j])
      /\ ~(Executed(p)[i].role = "connector"
           /\ Executed(p)[j].role \in {"container", "chip"})

\* A finished run in which a container was placed after a chip, an
\* annotation before a container and a connector after an annotation.
C6_Witness ==
  \E p \in Programs :
    /\ status[p] = "done"
    /\ \E i, j \in 1..Len(Executed(p)) :
         i < j /\ Executed(p)[i].role = "chip" /\ Executed(p)[j].role = "container"
    /\ \E i, j \in 1..Len(Executed(p)) :
         i < j /\ Executed(p)[i].role = "annotation" /\ Executed(p)[j].role = "container"
    /\ \E i, j \in 1..Len(Executed(p)) :
         i < j /\ Executed(p)[i].role = "annotation" /\ Executed(p)[j].role = "connector"

(***************************************************************************)
(* Geometry of the artists in the draw order, in data coordinates.         *)
(***************************************************************************)
Sgn(n) == IF n > 0 THEN 1 ELSE IF n < 0 THEN -1 ELSE 0

Min(a, b) == IF a <= b THEN a ELSE b

Max(a, b) == IF a >= b THEN a ELSE b

\* The cross product (b - a) x (c - a); points are pairs <<x, y>>.
Cross(a, b, c) == (b[1] - a[1]) * (c[2] - a[2]) - (b[2] - a[2]) * (c[1] - a[1])

\* c is within the bounding box of the segment a-b.
InSpan(a, b, c) ==
  /\ Min(a[1], b[1]) <= c[1] /\ c[1] <= Max(a[1], b[1])
  /\ Min(a[2], b[2]) <= c[2] /\ c[2] <= Max(a[2], b[2])

\* The closed segments a-b and c-d have a point in common.
SegmentsMeet(a, b, c, d) ==
  LET d1 == Sgn(Cross(c, d, a))
      d2 == Sgn(Cross(c, d, b))
      d3 == Sgn(Cross(a, b, c))
      d4 == Sgn(Cross(a, b, d))
  IN  \/ (d1 * d2 < 0 /\ d3 * d4 < 0)
      \/ (d1 = 0 /\ InSpan(c, d, a))
      \/ (d2 = 0 /\ InSpan(c, d, b))
      \/ (d3 = 0 /\ InSpan(a, b, c))
      \/ (d4 = 0 /\ InSpan(a, b, d))

\* The point pt is in the closed rectangle of the patch r.
PointInRect(pt, r) ==
  /\ r.x <= pt[1] /\ pt[1] <= r.x + r.w
  /\ r.y <= pt[2] /\ pt[2] <= r.y + r.h

\* The rectangle of the patch c is inside the rectangle of the patch r.
RectInside(c, r) ==
  /\ PointInRect(<<c.x, c.y>>, r)
  /\ PointInRect(<<c.x + c.w, c.y + c.h>>, r)

\* The segment of the connector c touches or crosses the rectangle of r.
ConnectorMeetsRect(c, r) ==
  LET a == <<c.x, c.y>>
      b == <<c.x2, c.y2>>
      ll == <<r.x, r.y>>
      lr == <<r.x + r.w, r.y>>
      ul == <<r.x, r.y + r.h>>
      ur == <<r.x + r.w, r.y + r.h>>
  IN  \/ PointInRect(a, r)
      \/ PointInRect(b, r)
      \/ SegmentsMeet(a, b, ll, lr)
      \/ SegmentsMeet(a, b, lr, ur)
      \/ SegmentsMeet(a, b, ur, ul)
      \/ SegmentsMeet(a, b, ul, ll)

\* The artist e sits on top of the container r.
SitsOn(e, r) ==
  \/ (e.role = "chip" /\ RectInside(e, r))
  \/ (e.role = "connector" /\ ConnectorMeetsRect(e, r))

\* C7: in the draw order every container comes before each chip that lies
\* inside it and before each connector that touches or crosses it.
C7_ContainersFirst ==
  \A p \in Programs : \A i, j \in 1..Len(drawOrder[p]) :
    (drawOrder[p][i].role = "container" /\ SitsOn(drawOrder[p][j], drawOrder[p][i]))
      => i < j

\* The proposed diagram is fully drawn: its IPC container, placed after the
\* chips, has the arrows that touch it and the boundary line that crosses it
\* above it, and a chip lies inside a container.
C7_Witness ==
  LET d == drawOrder["proposed"]
  IN  /\ exports["proposed"] = 1
      /\ \E i, j \in 1..Len(d) :
           /\ d[i].label = "ipc_box" /\ d[j].label = "separation_line"
           /\ SitsOn(d[j], d[i]) /\ i < j
      /\ \E i, j \in 1..Len(d) :
           /\ d[i].label = "rust_box" /\ d[j].role = "chip"
           /\ SitsOn(d[j], d[i]) /\ i < j
      /\ \E i, j, k \in 1..Len(d) :
           /\ d[i].role = "chip" /\ d[j].label = "ipc_box" /\ d[k].role = "connector"
           /\ i < j /\ j < k /\ SitsOn(d[k], d[j])

\* C8: the four corners of every rectangle and both ends of every
\* connector in the draw order are within the canvas limits.
C8_WithinCanvas ==
  \A p \in Programs : \A i \in 1..Len(drawOrder[p]) :
    LET e == drawOrder[p][i]
        InCanvas(px, py) ==
          /\ xlim[p][1] <= px /\ px <= xlim[p][2]
          /\ ylim[p][1] <= py /\ py <= ylim[p][2]
    IN  /\ e.op = "add_patch" =>
             /\ InCanvas(e.x, e.y) /\ InCanvas(e.x + e.w, e.y)
             /\ InCanvas(e.x, e.y + e.h) /\ InCanvas(e.x + e.w, e.y + e.h)
        /\ e.op = "add_artist" => (InCanvas(e.x, e.y) /\ InCanvas(e.x2, e.y2))

\* Both diagrams are fully drawn on their canvases of 10 x 10 and 12 x 10,
\* the proposed one with a rectangle reaching beyond x = 10.
C8_Witness ==
  /\ xlim["current"] = <<0, 1000>> /\ ylim["current"] = <<0, 1000>>
  /\ xlim["proposed"] = <<0, 1200>> /\ ylim["proposed"] = <<0, 1000>>
  /\ exports["current"] = 1 /\ exports["proposed"] = 1
  /\ \E i \in 1..Len(drawOrder["proposed"]) :
       /\ drawOrder["proposed"][i].op = "add_patch"
       /\ drawOrder["proposed"][i].x + drawOrder["proposed"][i].w > 1000
  /\ \E i \in 1..Len(drawOrder["current"]) : drawOrder["current"][i].op = "add_artist"

(***************************************************************************)
(* Connectors as drawn.                                                    *)
(***************************************************************************)
\* The populate statements of the script, in order: the i-th of them adds
\* the i-th artist of the draw order.
PopulateStmts(p) ==
  SelectSeq(Script(p), LAMBDA st : st.op \in {"text", "add_patch", "add_artist"})

\* A ConnectionPatch is drawn along the straight segment from xyA to xyB
\* (no connectionstyle is given), starting shrinkA points after xyA and
\* stopping shrinkB points before xyB.  The distance in points between each
\* drawn end and the point passed for it:
EndGaps(c) == <<c.shrinkA, c.shrinkB>>

\* C9 (as claimed): the two extreme points of every drawn connector are
\* exactly the two data coordinates passed to the call.
C9_EndpointsExact ==
  \A p \in Programs : \A i \in 1..Len(drawOrder[p]) :
    drawOrder[p][i].role = "connector" =>
      /\ drawOrder[p][i].coords = "data"
      /\ <<drawOrder[p][i].x, drawOrder[p][i].y>> = <<PopulateStmts(p)[i].x, PopulateStmts(p)[i].y>>
      /\ <<drawOrder[p][i].x2, drawOrder[p][i].y2>> = <<PopulateStmts(p)[i].x2, PopulateStmts(p)[i].y2>>
      /\ EndGaps(drawOrder[p][i]) = <<0, 0>>

\* C9 (amended): every connector keeps the two data coordinates passed to
\* the call, in the order passed, and is drawn along the straight segment
\* between them; each arrow stops 5 points short of either coordinate
\* (shrinkA = shrinkB = 5), and only the dashed separation line, which has
\* no arrow head and no shrink, ends exactly on its coordinates.
C9_EndpointsShrunk ==
  \A p \in Programs : \A i \in 1..Len(drawOrder[p]) :
    LET e == drawOrder[p][i]
        st == PopulateStmts(p)[i]
    IN  e.role = "connector" =>
          /\ e.coords = "data"
          /\ <<e.x, e.y>> = <<st.x, st.y>>
          /\ <<e.x2, e.y2>> = <<st.x2, st.y2>>
          /\ e.arrowstyle = "->" => EndGaps(e) = <<5, 5>>
          /\ e.arrowstyle # "->" => (EndGaps(e) = <<0, 0>> /\ e.label = "separation_line")

\* The arrow from (0.8, 7) to (1, 7) of the current diagram and the
\* separation line of the proposed diagram have both been drawn.
C9_Witness ==
  /\ \E i \in 1..Len(drawOrder["current"]) :
       LET e == drawOrder["current"][i]
       IN  /\ e.role = "connector"
           /\ <<e.x, e.y>> = <<80, 700>> /\ <<e.x2, e.y2>> = <<100, 700>>
           /\ EndGaps(e) = <<5, 5>>
  /\ \E i \in 1..Len(drawOrder["proposed"]) :
       LET e == drawOrder["proposed"][i]
       IN  e.label = "separation_line" /\ EndGaps(e) = <<0, 0>>

(***************************************************************************)
(* Chips and their labels.                                                 *)
(***************************************************************************)
\* The (comp, x, y) tuples the chip loops of a program run over.
Components(p) ==
  IF p = "current" THEN mitm_components \o audit_components
  ELSE rust_components \o java_components

ChipTexts == {"chipLabel", "chipSubLabel"}

\* C10: every chip rectangle is centred on the (x, y) of its component;
\* every text of a chip is anchored centre/centre at a point inside the
\* chip's rectangle, drawn after it, and the primary label is anchored at
\* the centre of the rectangle; a drawn diagram has a primary label for
\* every component.
C10_LabelCentred ==
  \A p \in Programs :
    LET d == drawOrder[p]
    IN  /\ \A i \in 1..Len(d) :
             d[i].role = "chip" =>
               \E k \in 1..Len(Components(p)) :
                 /\ Components(p)[k][1] = d[i].label
                 /\ 2 * d[i].x + d[i].w = 2 * Components(p)[k][2]
                 /\ 2 * d[i].y + d[i].h = 2 * Components(p)[k][3]
                 /\ d[i].w > 0 /\ d[i].h > 0
        /\ \A j \in 1..Len(d) :
             d[j].role \in ChipTexts =>
               /\ d[j].ha = "center" /\ d[j].va = "center"
               /\ \E i \in 1..(j - 1) :
                    /\ d[i].role = "chip" /\ d[i].label = d[j].label
                    /\ PointInRect(<<d[j].x, d[j].y>>, d[i])
                    /\ d[j].role = "chipLabel" =>
                         /\ 2 * d[j].x = 2 * d[i].x + d[i].w
                         /\ 2 * d[j].y = 2 * d[i].y + d[i].h
        /\ exports[p] > 0 =>
             \A k \in 1..Len(Components(p)) :
               \E i, j \in 1..Len(d) :
                 /\ d[i].role = "chip" /\ d[i].label = Components(p)[k][1]
                 /\ d[j].role = "chipLabel" /\ d[j].label = Components(p)[k][1]

\* Both diagrams are drawn, with the eight chips of the current one, the
\* ten of the proposed one and a second text below a chip's centre.
C10_Witness ==
  /\ exports["current"] = 1 /\ exports["proposed"] = 1
  /\ Cardinality({i \in 1..Len(drawOrder["current"]) :
                    drawOrder["current"][i].role = "chip"}) = Len(Components("current"))
  /\ Cardinality({i \in 1..Len(drawOrder["proposed"]) :
                    drawOrder["proposed"][i].role = "chip"}) = Len(Components("proposed"))
  /\ \E i, j \in 1..Len(drawOrder["proposed"]) :
       /\ drawOrder["proposed"][i].role = "chip"
       /\ drawOrder["proposed"][j].role = "chipSubLabel"
       /\ drawOrder["proposed"][j].label = drawOrder["proposed"][i].label
       /\ 2 * drawOrder["proposed"][j].y < 2 * drawOrder["proposed"][i].y + drawOrder["proposed"][i].h

====
